---------------------------- MODULE Spec2Model ----------------------------
(***************************************************************************)
(* A model of the USAspending tool server (main.py): the four tool         *)
(* adapters, the error normalizer _raise_for_usaspending, the one shared   *)
(* HTTP client and the lifecycle of the server run.                        *)
(*                                                                         *)
(* Strings are sequences of tokens.  A token is one character, or one      *)
(* literal fragment of the source (a path, a message literal) that no      *)
(* operation of the program looks into.  Everything the program strips,    *)
(* slices, parses or formats is kept character by character.               *)
(*                                                                         *)
(* Optional arguments are sequences: None is <<>>, a provided value v is   *)
(* <<v>>.  A Python dict (request parameters, JSON body) is a function     *)
(* from its keys to their values.                                          *)
(***************************************************************************)
EXTENDS Integers, Sequences, FiniteSets, TLC

VARIABLES
    pc,            \* the server run: "running", "closing", "exited"
    raised,        \* whether mcp.run, and the close in the finally block, raised
    _http_client,  \* the module-level client: state, instances created, times closed
    calls,         \* one record per tool invocation: its position, arguments, outcome
    requests,      \* per invocation, the requests it issued through the client
    responses      \* per invocation, what came back for its request (at most one)

vars == <<pc, raised, _http_client, calls, requests, responses>>

(***************************************************************************)
(* Bounds of the model and constants of the program.                       *)
(***************************************************************************)
NumCalls == 2

LimitMin == 1
LimitMax == 500
TextLimit == 500

Calls == 1..NumCalls

None == <<>>
Some(v) == <<v>>

(***************************************************************************)
(* Strings.                                                                *)
(***************************************************************************)
Whitespace == {" ", "\n"}
Digits == {"0", "1", "2", "3", "4", "5", "6", "7", "8", "9"}

Min(a, b) == IF a <= b THEN a ELSE b

Drop(s, n) == SubSeq(s, n + 1, Len(s))

\* s[:n]
Take(s, n) == SubSeq(s, 1, Min(n, Len(s)))

StartsWith(s, p) == Len(s) >= Len(p) /\ SubSeq(s, 1, Len(p)) = p

RECURSIVE LStrip(_)
LStrip(s) ==
    IF s # <<>> /\ Head(s) \in Whitespace THEN LStrip(Tail(s)) ELSE s

RECURSIVE RStrip(_)
RStrip(s) ==
    IF s # <<>> /\ s[Len(s)] \in Whitespace
    THEN RStrip(SubSeq(s, 1, Len(s) - 1))
    ELSE s

\* str.strip()
Strip(s) == RStrip(LStrip(s))

Digit(d) == <<"0", "1", "2", "3", "4", "5", "6", "7", "8", "9">>[d + 1]

\* str(n) of a non-negative int
RECURSIVE IntToStr(_)
IntToStr(n) ==
    IF n < 10 THEN <<Digit(n)>> ELSE Append(IntToStr(n \div 10), Digit(n % 10))

\* n copies of the character c
Rep(c, n) == [i \in 1..n |-> c]

(***************************************************************************)
(* JSON values, as resp.json() decodes them.  Every value has the same     *)
(* three fields: its type, its text (str, int, bool) and its items (list:  *)
(* the elements; dict: key, value, key, value, ...).                       *)
(***************************************************************************)
JNull == [t |-> "null", s |-> <<>>, items |-> <<>>]
JBool(b) == [t |-> "bool", s |-> <<b>>, items |-> <<>>]
JInt(ds) == [t |-> "int", s |-> ds, items |-> <<>>]
JStr(cs) == [t |-> "str", s |-> cs, items |-> <<>>]
JList(vs) == [t |-> "list", s |-> <<>>, items |-> vs]
JDict(kvs) == [t |-> "dict", s |-> <<>>, items |-> kvs]

Parsed(v, rest) == [ok |-> TRUE, val |-> v, rest |-> rest]
ParseFail == [ok |-> FALSE, val |-> JNull, rest |-> <<>>]

\* the characters of s before its first double quote, s being what follows
\* an opening quote
RECURSIVE ParseString(_, _)
ParseString(s, acc) ==
    IF s = <<>> THEN ParseFail
    ELSE IF Head(s) = "\"" THEN Parsed(JStr(acc), Tail(s))
    ELSE ParseString(Tail(s), Append(acc, Head(s)))

RECURSIVE DigitPrefix(_)
DigitPrefix(s) ==
    IF s # <<>> /\ Head(s) \in Digits THEN <<Head(s)>> \o DigitPrefix(Tail(s)) ELSE <<>>

\* a JSON int: 0, or a digit 1-9 followed by digits
ParseInt(s) ==
    IF Head(s) = "0" THEN Parsed(JInt(<<"0">>), Tail(s))
    ELSE LET ds == DigitPrefix(s) IN Parsed(JInt(ds), Drop(s, Len(ds)))

RECURSIVE ParseValue(_), ParseElements(_, _), ParseMembers(_, _)
ParseValue(s0) ==
    LET s == LStrip(s0) IN
    IF s = <<>> THEN ParseFail
    ELSE IF StartsWith(s, <<"n", "u", "l", "l">>) THEN Parsed(JNull, Drop(s, 4))
    ELSE IF StartsWith(s, <<"t", "r", "u", "e">>) THEN Parsed(JBool("True"), Drop(s, 4))
    ELSE IF StartsWith(s, <<"f", "a", "l", "s", "e">>) THEN Parsed(JBool("False"), Drop(s, 5))
    ELSE IF Head(s) = "\"" THEN ParseString(Tail(s), <<>>)
    ELSE IF Head(s) \in Digits THEN ParseInt(s)
    ELSE IF Head(s) = "["
         THEN LET r == LStrip(Tail(s)) IN
              IF r # <<>> /\ Head(r) = "]" THEN Parsed(JList(<<>>), Tail(r))
              ELSE ParseElements(Tail(s), <<>>)
    ELSE IF Head(s) = "{"
         THEN LET r == LStrip(Tail(s)) IN
              IF r # <<>> /\ Head(r) = "}" THEN Parsed(JDict(<<>>), Tail(r))
              ELSE ParseMembers(Tail(s), <<>>)
    ELSE ParseFail

ParseElements(s, acc) ==
    LET v == ParseValue(s) IN
    IF ~v.ok THEN ParseFail
    ELSE LET r == LStrip(v.rest) IN
         IF r = <<>> THEN ParseFail
         ELSE IF Head(r) = "," THEN ParseElements(Tail(r), Append(acc, v.val))
         ELSE IF Head(r) = "]" THEN Parsed(JList(Append(acc, v.val)), Tail(r))
         ELSE ParseFail

ParseMembers(s, acc) ==
    LET k == LStrip(s) IN
    IF k = <<>> \/ Head(k) # "\"" THEN ParseFail
    ELSE LET ks == ParseString(Tail(k), <<>>) IN
         IF ~ks.ok THEN ParseFail
         ELSE LET c == LStrip(ks.rest) IN
              IF c = <<>> \/ Head(c) # ":" THEN ParseFail
              ELSE LET v == ParseValue(Tail(c)) IN
                   IF ~v.ok THEN ParseFail
                   ELSE LET r == LStrip(v.rest)
                            acc2 == acc \o <<ks.val, v.val>>
                        IN IF r = <<>> THEN ParseFail
                           ELSE IF Head(r) = "," THEN ParseMembers(Tail(r), acc2)
                           ELSE IF Head(r) = "}" THEN Parsed(JDict(acc2), Tail(r))
                           ELSE ParseFail

\* an undecodable byte of a body, and what resp.text makes of it
BadByte == "\\xff"
Replacement == "\\ufffd"

\* resp.json(): the whole body is one JSON value, whitespace around it allowed
resp_json(body) ==
    LET v == ParseValue(body) IN
    IF v.ok /\ LStrip(v.rest) = <<>> THEN Parsed(v.val, <<>>) ELSE ParseFail

\* resp.text: the body decoded, an undecodable byte replaced
resp_text(body) ==
    [i \in 1..Len(body) |-> IF body[i] = BadByte THEN Replacement ELSE body[i]]

\* bool(payload)
Truthy(v) ==
    CASE v.t = "null" -> FALSE
      [] v.t = "bool" -> v.s = <<"True">>
      [] v.t = "int" -> \E i \in 1..Len(v.s) : v.s[i] # "0"
      [] v.t = "str" -> v.s # <<>>
      [] OTHER -> v.items # <<>>

\* repr(v), and the items of a list or dict joined by ", "
RECURSIVE PyRepr(_), PyReprList(_), PyReprDict(_)
PyRepr(v) ==
    CASE v.t = "null" -> <<"N", "o", "n", "e">>
      [] v.t = "bool" -> v.s
      [] v.t = "int" -> v.s
      [] v.t = "str" -> <<"'">> \o v.s \o <<"'">>
      [] v.t = "list" -> <<"[">> \o PyReprList(v.items) \o <<"]">>
      [] OTHER -> <<"{">> \o PyReprDict(v.items) \o <<"}">>

PyReprList(vs) ==
    IF vs = <<>> THEN <<>>
    ELSE IF Len(vs) = 1 THEN PyRepr(vs[1])
    ELSE PyRepr(vs[1]) \o <<",", " ">> \o PyReprList(Tail(vs))

PyReprDict(kvs) ==
    IF kvs = <<>> THEN <<>>
    ELSE LET one == PyRepr(kvs[1]) \o <<":", " ">> \o PyRepr(kvs[2]) IN
         IF Len(kvs) = 2 THEN one
         ELSE one \o <<",", " ">> \o PyReprDict(Drop(kvs, 2))

\* str(v), as an f-string formats {payload}
PyStr(v) == IF v.t = "str" THEN v.s ELSE PyRepr(v)

(***************************************************************************)
(* Requests and the URL the client gives them.                             *)
(***************************************************************************)
BASE_URL == "https://api.usaspending.gov"

EmptyDict == <<>>

Post(path, body) ==
    [method |-> "POST", path |-> path, params |-> EmptyDict, json |-> body, client |-> 1]

Get(path, params) ==
    [method |-> "GET", path |-> path, params |-> params, json |-> EmptyDict, client |-> 1]

\* the order in which the adapters insert their query parameters
ParamOrder == <<"awarding_agency_id", "fiscal_year", "limit", "page", "year">>

QueryValue(k, v) == IF k = "year" THEN v ELSE IntToStr(v)

RECURSIVE QueryPairs(_, _)
QueryPairs(params, keys) ==
    IF keys = <<>> THEN <<>>
    ELSE LET k == Head(keys)
             rest == QueryPairs(params, Tail(keys))
         IN IF k \in DOMAIN params
            THEN <<"&", k, "=">> \o QueryValue(k, params[k]) \o rest
            ELSE rest

Query(params) ==
    LET q == QueryPairs(params, ParamOrder) IN
    IF q = <<>> THEN <<>> ELSE <<"?">> \o Tail(q)

\* whitespace in a path is percent-encoded
Quote(path) ==
    [i \in 1..Len(path) |->
        IF path[i] = " " THEN "%20" ELSE IF path[i] = "\n" THEN "%0A" ELSE path[i]]

\* resp.request.url
Url(req) == <<BASE_URL>> \o Quote(req.path) \o Query(req.params)

(***************************************************************************)
(* _raise_for_usaspending.                                                 *)
(***************************************************************************)
\* raise_for_status raising on 4xx and 5xx only
raise_for_status_client_server(resp) == resp.status >= 400

\* whether resp.raise_for_status() raises HTTPStatusError: on every status
\* that is not 2xx
raise_for_status(resp) == ~(200 <= resp.status /\ resp.status <= 299)

\* the except branch cutting before it strips
TextFallbackCutFirst(resp) ==
    LET txt == Strip(Take(resp_text(resp.body), TextLimit)) IN
    IF txt # <<>> THEN <<" Response: ">> \o txt ELSE <<>>

\* the except branch: the text, stripped and cut
TextFallback(resp) ==
    LET txt == Strip(resp_text(resp.body)) IN
    IF txt # <<>> THEN <<" Response: ">> \o Take(txt, TextLimit) ELSE <<>>

\* detail falling back to the text whenever the JSON gave nothing
ErrorDetailFallThrough(resp) ==
    LET payload == resp_json(resp.body) IN
    IF payload.ok /\ Truthy(payload.val)
    THEN <<" Response: ">> \o PyStr(payload.val)
    ELSE TextFallback(resp)

\* detail: the try block, and its except branch when resp.json() raises
ErrorDetail(resp) ==
    LET payload == resp_json(resp.body) IN
    IF payload.ok
    THEN IF Truthy(payload.val) THEN <<" Response: ">> \o PyStr(payload.val) ELSE <<>>
    ELSE TextFallback(resp)

ErrorMessage(resp) ==
    <<"USAspending API error ">> \o IntToStr(resp.status)
        \o <<" for ", resp.request.method, " ">> \o Url(resp.request) \o <<".">>
        \o ErrorDetail(resp)

\* None when nothing is raised, else the message of the ToolError raised
_raise_for_usaspending(resp) ==
    IF raise_for_status(resp) THEN Some(ErrorMessage(resp)) ELSE None

(***************************************************************************)
(* Outcomes of an invocation.                                              *)
(***************************************************************************)
NoOutcome == [kind |-> "none", msg |-> <<>>, value |-> JNull]
Return(v) == [kind |-> "return", msg |-> <<>>, value |-> v]
ToolError(m) == [kind |-> "ToolError", msg |-> m, value |-> JNull]
Raise(e) == [kind |-> "raise", msg |-> <<e>>, value |-> JNull]

(***************************************************************************)
(* The adapters: validation and the request each builds.  Each Build       *)
(* operator gives the message of the ToolError the validation raises (None *)
(* when it raises nothing) and the request issued otherwise.               *)
(***************************************************************************)
Built(req) == [err |-> None, req |-> req]
Rejected(m) == [err |-> Some(<<m>>), req |-> Get(<<>>, EmptyDict)]

\* not s or not s.strip()
Blank(s) == s = <<>> \/ Strip(s) = <<>>

recipient_autocomplete_build(a) ==
    IF Blank(a.search_text)
    THEN Rejected("search_text is required and cannot be empty.")
    ELSE IF a.limit < LimitMin THEN Rejected("limit must be >= 1.")
    ELSE IF a.limit > LimitMax THEN Rejected("limit must be <= 500.")
    ELSE LET body == [search_text |-> a.search_text, limit |-> a.limit] IN
         Built(Post(<<"/api/v2/autocomplete/recipient/">>,
                    IF a.recipient_levels # None
                    THEN body @@ ("recipient_levels" :> a.recipient_levels[1])
                    ELSE body))

\* recipient_list without the check of page
recipient_list_build_unchecked_page(a) ==
    LET params == [awarding_agency_id |-> a.awarding_agency_id,
                   fiscal_year |-> a.fiscal_year]
    IN
    IF a.limit # None /\ a.limit[1] < 1 THEN Rejected("limit must be >= 1.")
    ELSE LET params1 == IF a.limit # None
                        THEN params @@ ("limit" :> a.limit[1])
                        ELSE params
         IN Built(Get(<<"/api/v2/award_spending/recipient/">>,
                      IF a.page # None
                      THEN params1 @@ ("page" :> a.page[1])
                      ELSE params1))

recipient_list_build(a) ==
    LET params == [awarding_agency_id |-> a.awarding_agency_id,
                   fiscal_year |-> a.fiscal_year]
    IN
    IF a.limit # None /\ a.limit[1] < 1 THEN Rejected("limit must be >= 1.")
    ELSE LET params1 == IF a.limit # None
                        THEN params @@ ("limit" :> a.limit[1])
                        ELSE params
         IN
         IF a.page # None /\ a.page[1] < 1 THEN Rejected("page must be >= 1.")
         ELSE Built(Get(<<"/api/v2/award_spending/recipient/">>,
                        IF a.page # None
                        THEN params1 @@ ("page" :> a.page[1])
                        ELSE params1))

\* body[k] set whether or not the argument is provided
WithAlways(body, k, opt) == body @@ (k :> opt)

\* body[k] = v when the optional argument is provided
With(body, k, opt) == IF opt # None THEN body @@ (k :> opt[1]) ELSE body

\* spending_by_award checking the numeric bounds before the enums
spending_by_award_build_bounds_first(a) ==
    IF DOMAIN a.filters = {} THEN Rejected("filters must be a non-empty object.")
    ELSE IF a.fields = <<>> THEN Rejected("fields must be a non-empty array of strings.")
    ELSE IF a.limit # None /\ a.limit[1] < 1 THEN Rejected("limit must be >= 1.")
    ELSE IF a.page # None /\ a.page[1] < 1 THEN Rejected("page must be >= 1.")
    ELSE IF a.order \notin {"asc", "desc"} THEN Rejected("order must be 'asc' or 'desc'.")
    ELSE IF a.spending_level \notin {"awards", "subawards"}
         THEN Rejected("spending_level must be 'awards' or 'subawards'.")
    ELSE Built(Post(<<"/api/v2/search/spending_by_award/">>,
                With(With(With(With(With(
                    [filters |-> a.filters,
                     fields |-> a.fields,
                     order |-> a.order,
                     subawards |-> a.subawards,
                     spending_level |-> a.spending_level],
                    "limit", a.limit),
                    "page", a.page),
                    "sort", a.sort),
                    "last_record_unique_id", a.last_record_unique_id),
                    "last_record_sort_value", a.last_record_sort_value)))

spending_by_award_build(a) ==
    IF DOMAIN a.filters = {} THEN Rejected("filters must be a non-empty object.")
    ELSE IF a.fields = <<>> THEN Rejected("fields must be a non-empty array of strings.")
    ELSE IF a.order \notin {"asc", "desc"} THEN Rejected("order must be 'asc' or 'desc'.")
    ELSE IF a.spending_level \notin {"awards", "subawards"}
         THEN Rejected("spending_level must be 'awards' or 'subawards'.")
    ELSE LET body == [filters |-> a.filters,
                      fields |-> a.fields,
                      order |-> a.order,
                      subawards |-> a.subawards,
                      spending_level |-> a.spending_level]
         IN
         IF a.limit # None /\ a.limit[1] < 1 THEN Rejected("limit must be >= 1.")
         ELSE IF a.page # None /\ a.page[1] < 1 THEN Rejected("page must be >= 1.")
         ELSE Built(Post(<<"/api/v2/search/spending_by_award/">>,
                With(With(With(With(With(body,
                    "limit", a.limit),
                    "page", a.page),
                    "sort", a.sort),
                    "last_record_unique_id", a.last_record_unique_id),
                    "last_record_sort_value", a.last_record_sort_value)))

\* recipient_children interpolating the identifier as passed
recipient_children_build_unstripped(a) ==
    IF Blank(a.duns_or_uei)
    THEN Rejected("duns_or_uei is required and cannot be empty.")
    ELSE Built(Get(<<"/api/v2/recipient/children/">> \o a.duns_or_uei \o <<"/">>,
                   With(EmptyDict, "year", a.year)))

recipient_children_build(a) ==
    IF Blank(a.duns_or_uei)
    THEN Rejected("duns_or_uei is required and cannot be empty.")
    ELSE Built(Get(<<"/api/v2/recipient/children/">> \o Strip(a.duns_or_uei) \o <<"/">>,
                   With(EmptyDict, "year", a.year)))

(***************************************************************************)
(* The state machine.                                                      *)
(***************************************************************************)
Idle == [pc |-> "idle", tool |-> "none", args |-> <<>>, outcome |-> NoOutcome]

Init ==
    /\ pc = "running"
    /\ raised = [run |-> FALSE, close |-> FALSE]
    /\ _http_client = [state |-> "open", instances |-> 1, closes |-> 0]
    /\ calls = [i \in Calls |-> Idle]
    /\ requests = [i \in Calls |-> <<>>]
    /\ responses = [i \in Calls |-> <<>>]

\* An invocation up to its suspension point: it ends with the ToolError of
\* the validation, or issues its one request through _http_client and waits.
Invoked(tool, a, b) ==
    [pc |-> IF b.err # None THEN "done" ELSE "awaiting",
     tool |-> tool,
     args |-> a,
     outcome |-> IF b.err # None THEN ToolError(b.err[1]) ELSE NoOutcome]

\* _http_client.post / _http_client.get: the request goes out
Issued(i, b) ==
    IF b.err # None THEN requests ELSE [requests EXCEPT ![i] = Append(@, b.req)]

recipient_autocomplete(i, a) ==
    /\ pc = "running"
    /\ calls[i].pc = "idle"
    /\ calls' = [calls EXCEPT ![i] =
            Invoked("recipient_autocomplete", a, recipient_autocomplete_build(a))]
    /\ requests' = Issued(i, recipient_autocomplete_build(a))
    /\ UNCHANGED <<pc, raised, _http_client, responses>>

recipient_list(i, a) ==
    /\ pc = "running"
    /\ calls[i].pc = "idle"
    /\ calls' = [calls EXCEPT ![i] =
            Invoked("recipient_list", a, recipient_list_build(a))]
    /\ requests' = Issued(i, recipient_list_build(a))
    /\ UNCHANGED <<pc, raised, _http_client, responses>>

spending_by_award(i, a) ==
    /\ pc = "running"
    /\ calls[i].pc = "idle"
    /\ calls' = [calls EXCEPT ![i] =
            Invoked("spending_by_award", a, spending_by_award_build(a))]
    /\ requests' = Issued(i, spending_by_award_build(a))
    /\ UNCHANGED <<pc, raised, _http_client, responses>>

recipient_children(i, a) ==
    /\ pc = "running"
    /\ calls[i].pc = "idle"
    /\ calls' = [calls EXCEPT ![i] =
            Invoked("recipient_children", a, recipient_children_build(a))]
    /\ requests' = Issued(i, recipient_children_build(a))
    /\ UNCHANGED <<pc, raised, _http_client, responses>>

\* The upstream API answers the request of invocation i.
UpstreamResponds(i, status, body) ==
    /\ pc = "running"
    /\ calls[i].pc = "awaiting"
    /\ responses[i] = <<>>
    /\ responses' = [responses EXCEPT ![i] =
            <<[kind |-> "http", status |-> status, body |-> body,
               request |-> requests[i][Len(requests[i])]]>>]
    /\ UNCHANGED <<pc, raised, _http_client, calls, requests>>

\* The request of invocation i times out or cannot connect.
TransportFails(i, exc) ==
    /\ pc = "running"
    /\ calls[i].pc = "awaiting"
    /\ responses[i] = <<>>
    /\ responses' = [responses EXCEPT ![i] =
            <<[kind |-> exc, status |-> 0, body |-> <<>>,
               request |-> requests[i][Len(requests[i])]]>>]
    /\ UNCHANGED <<pc, raised, _http_client, calls, requests>>

\* an await handing over whichever response is there
AwaitAnyResponse(i) ==
    IF \E j \in Calls : responses[j] # <<>>
    THEN responses[CHOOSE j \in Calls : responses[j] # <<>>]
    ELSE <<>>

\* what the await of invocation i evaluates to: the answer to its own request
AwaitResponse(i) == responses[i]

\* the adapter after its await, the normalizer left out
AfterAwaitUnchecked(resp) ==
    IF resp.kind # "http" THEN Raise(resp.kind)
    ELSE LET payload == resp_json(resp.body) IN
         IF payload.ok THEN Return(payload.val) ELSE Raise("JSONDecodeError")

\* the adapter after its await: the client raises, or the normalizer raises,
\* or the decoded body is returned
AfterAwait(resp) ==
    IF resp.kind # "http" THEN Raise(resp.kind)
    ELSE LET e == _raise_for_usaspending(resp) IN
         IF e # None THEN ToolError(e[1])
         ELSE LET payload == resp_json(resp.body) IN
              IF payload.ok THEN Return(payload.val) ELSE Raise("JSONDecodeError")

Resume(i) ==
    /\ pc = "running"
    /\ calls[i].pc = "awaiting"
    /\ AwaitResponse(i) # <<>>
    /\ calls' = [calls EXCEPT ![i].pc = "done",
                              ![i].outcome = AfterAwait(AwaitResponse(i)[1])]
    /\ UNCHANGED <<pc, raised, _http_client, requests, responses>>

\* mcp.run without the try/finally: an exception ends the process
RunEndsUnguarded(exc) ==
    /\ pc = "running"
    /\ pc' = IF exc THEN "exited" ELSE "closing"
    /\ raised' = [raised EXCEPT !.run = exc]
    /\ UNCHANGED <<_http_client, calls, requests, responses>>

\* mcp.run returns, or raises: either way the finally block is entered
RunEnds(exc) ==
    /\ pc = "running"
    /\ pc' = "closing"
    /\ raised' = [raised EXCEPT !.run = exc]
    /\ UNCHANGED <<_http_client, calls, requests, responses>>

\* AsyncClient.aclose(): marks the client closed, then closes the transport
aclose(c) ==
    IF c.state # "closed"
    THEN [c EXCEPT !.state = "closed", !.closes = @ + 1]
    ELSE c

\* the finally block: asyncio.run(_close_client()), an exception swallowed
_close_client(exc) ==
    /\ pc = "closing"
    /\ pc' = "exited"
    /\ _http_client' = aclose(_http_client)
    /\ raised' = [raised EXCEPT !.close = exc]
    /\ UNCHANGED <<calls, requests, responses>>

(***************************************************************************)
(* The inputs the invocations and the upstream API are drawn from.         *)
(***************************************************************************)
OptInts == {None, Some(-1), Some(0), Some(1), Some(5)}

AutocompleteArgs ==
    [search_text : {<<>>, <<" ">>, <<"a", "b">>, <<" ", "a", " ">>},
     limit : {-1, 0, 1, 10, 500, 501},
     recipient_levels : {None, Some(<<>>), Some(<<"P", "C">>)}]

ListArgs ==
    [awarding_agency_id : {0, 183},
     fiscal_year : {2017},
     limit : OptInts,
     page : OptInts]

SomeFilters == [award_type_codes |-> <<"A", "B", "C">>]
SomeFields == <<"Award ID", "Recipient Name">>

\* every combination of the validated arguments, and every combination of
\* the optional ones on valid arguments
SpendingArgs ==
    {a \in [filters : {EmptyDict, SomeFilters},
            fields : {<<>>, SomeFields},
            limit : {None, Some(0), Some(2)},
            order : {"asc", "desc", "ASC"},
            page : {None, Some(0), Some(1)},
            sort : {None, Some("Award Amount")},
            subawards : BOOLEAN,
            last_record_unique_id : {None, Some(7)},
            last_record_sort_value : {None, Some("v")},
            spending_level : {"awards", "subawards", "transactions"}] :
        \/ /\ a.sort = None
           /\ ~a.subawards
           /\ a.last_record_unique_id = None
           /\ a.last_record_sort_value = None
        \/ /\ DOMAIN a.filters # {}
           /\ a.fields # <<>>
           /\ a.order = "desc"
           /\ a.spending_level = "awards"
           /\ a.limit \in {None, Some(2)}
           /\ a.page \in {None, Some(1)}}

ChildrenArgs ==
    [duns_or_uei : {<<>>, <<" ", "\n">>, <<"0", "0", "1">>, <<"a", " ", "b">>,
                    <<" ", " ", "0", "0", "1", "0", "0", "6", "3", "6", "0", " ", " ">>},
     year : {None, Some(<<>>), Some(<<"2", "0", "1", "7">>), Some(<<"a", "l", "l">>)}]

Statuses == {200, 204, 301, 399, 400, 404, 500}

\* {"detail":"not found"}
DetailNotFound ==
    <<"{", "\"", "d", "e", "t", "a", "i", "l", "\"", ":",
      "\"", "n", "o", "t", " ", "f", "o", "u", "n", "d", "\"", "}">>

JsonBodies ==
    {<<"{", "}">>, <<"[", "]">>, <<"\"", "\"">>, <<"0">>, <<"n", "u", "l", "l">>,
     <<"f", "a", "l", "s", "e">>, <<" ", "{", " ", "}", "\n">>,
     DetailNotFound, <<"[", "1", ",", " ", "2", "]">>, <<"\"", "h", "i", "\"">>, <<"7">>}

TextBodies ==
    {<<>>, <<" ", "\n">>, <<"N", "o", "t", " ", "F", "o", "u", "n", "d">>,
     <<" ", "o", "o", "p", "s", "\n">>, <<"{", "b", "a", "d">>, <<"0", "0">>,
     <<BadByte, BadByte>>,
     Rep("x", TextLimit - 1), Rep("x", TextLimit), Rep("x", TextLimit + 1),
     <<" ", " ">> \o Rep("x", TextLimit) \o <<"y", " ">>}

Bodies == JsonBodies \cup TextBodies

TransportErrors == {"TimeoutException", "ConnectError"}

\* the inputs of the concurrent invocations: for every adapter one argument
\* set that is rejected and one that is sent
ConcAutocompleteArgs ==
    {a \in AutocompleteArgs :
        a.search_text = <<"a", "b">> /\ a.limit \in {10, 501} /\ a.recipient_levels = None}

ConcListArgs ==
    {a \in ListArgs :
        a.awarding_agency_id = 183 /\ a.limit \in {None, Some(0)} /\ a.page = None}

ConcSpendingArgs ==
    {a \in SpendingArgs :
        /\ DOMAIN a.filters # {} /\ a.fields # <<>>
        /\ a.order \in {"desc", "ASC"} /\ a.spending_level = "awards"
        /\ a.limit = None /\ a.page = None /\ a.sort = None /\ ~a.subawards
        /\ a.last_record_unique_id = None /\ a.last_record_sort_value = None}

ConcChildrenArgs ==
    {a \in ChildrenArgs : a.duns_or_uei \in {<<>>, <<"0", "0", "1">>} /\ a.year = None}

ConcAnswers ==
    {<<200, <<"[", "1", "]">> >>, <<200, <<"[", "2", "]">> >>, <<500, <<"x">> >>}

(***************************************************************************)
(* Spec: the server run, with NumCalls concurrent invocations.             *)
(***************************************************************************)
Next ==
    \/ \E i \in Calls, a \in ConcAutocompleteArgs : recipient_autocomplete(i, a)
    \/ \E i \in Calls, a \in ConcListArgs : recipient_list(i, a)
    \/ \E i \in Calls, a \in ConcSpendingArgs : spending_by_award(i, a)
    \/ \E i \in Calls, a \in ConcChildrenArgs : recipient_children(i, a)
    \/ \E i \in Calls, r \in ConcAnswers : UpstreamResponds(i, r[1], r[2])
    \/ \E i \in Calls : TransportFails(i, "TimeoutException")
    \/ \E i \in Calls : Resume(i)
    \/ \E exc \in BOOLEAN : RunEnds(exc)
    \/ \E exc \in BOOLEAN : _close_client(exc)

Spec == Init /\ [][Next]_vars

(***************************************************************************)
(* SpecCall: one invocation, over all the inputs.                          *)
(***************************************************************************)
NextCall ==
    \/ \E a \in AutocompleteArgs : recipient_autocomplete(1, a)
    \/ \E a \in ListArgs : recipient_list(1, a)
    \/ \E a \in SpendingArgs : spending_by_award(1, a)
    \/ \E a \in ChildrenArgs : recipient_children(1, a)
    \/ \E status \in Statuses, body \in Bodies : UpstreamResponds(1, status, body)
    \/ \E exc \in TransportErrors : TransportFails(1, exc)
    \/ Resume(1)

SpecCall == Init /\ [][NextCall]_vars

(***************************************************************************)
(* What the properties below speak of.                                     *)
(***************************************************************************)
Started(i) == calls[i].pc # "idle"
Done(i) == calls[i].pc = "done"
Sent(i) == requests[i] # <<>>
Answered(i) == responses[i] # <<>>

\* the arguments pass every check the adapter's contract lists
OptAtLeastOne(opt) == opt = None \/ opt[1] >= 1

NonBlank(s) == \E k \in 1..Len(s) : s[k] \notin Whitespace

ArgsValid(c) ==
    CASE c.tool = "recipient_autocomplete" ->
            /\ NonBlank(c.args.search_text)
            /\ c.args.limit >= 1
            /\ c.args.limit <= 500
      [] c.tool = "recipient_list" ->
            OptAtLeastOne(c.args.limit) /\ OptAtLeastOne(c.args.page)
      [] c.tool = "spending_by_award" ->
            /\ DOMAIN c.args.filters # {}
            /\ Len(c.args.fields) > 0
            /\ c.args.order \in {"asc", "desc"}
            /\ c.args.spending_level \in {"awards", "subawards"}
            /\ OptAtLeastOne(c.args.limit)
            /\ OptAtLeastOne(c.args.page)
      [] c.tool = "recipient_children" -> NonBlank(c.args.duns_or_uei)
      [] OTHER -> FALSE

\* C1: an invocation issues no request when one of its checks fails and
\* exactly one otherwise, whatever comes back for it; a request that failed
\* or timed out is not issued again.
C1_RequestCount ==
    \A i \in Calls :
        /\ Len(requests[i]) <= 1
        /\ ~Started(i) => Len(requests[i]) = 0
        /\ Started(i) => Len(requests[i]) = (IF ArgsValid(calls[i]) THEN 1 ELSE 0)
        /\ Started(i) /\ ~ArgsValid(calls[i]) =>
                Done(i) /\ calls[i].outcome.kind = "ToolError" /\ ~Answered(i)

\* recipient_list with a valid limit and page = 0 is over, with no request
C1_Witness ==
    /\ Done(1)
    /\ calls[1].tool = "recipient_list"
    /\ calls[1].args.limit = Some(5)
    /\ calls[1].args.page = Some(0)
    /\ calls[1].outcome.kind = "ToolError"
    /\ requests[1] = <<>>

\* the response an invocation got, and the request it sent
Resp(i) == responses[i][1]
Req(i) == requests[i][1]

GotHttp(i) == Done(i) /\ Answered(i) /\ Resp(i).kind = "http"
GotFailure(i) == GotHttp(i) /\ ~(Resp(i).status \in 200..299)
\* a status that is a failure on every reading: 4xx or 5xx
GotError(i) == GotHttp(i) /\ Resp(i).status >= 400

\* C2 as stated: every invocation that is over returned the decoded payload
\* or raised the Tool Error; no other exception leaves the adapter.
C2_Original ==
    \A i \in Calls : Done(i) => calls[i].outcome.kind \in {"return", "ToolError"}

\* C2, amended: a failed check and a non-2xx status end in the Tool Error, a
\* 2xx status with a decodable body returns the decoded body, and a transport
\* failure or an undecodable body on a 2xx status leaves the adapter as the
\* exception the client or the decoder raised.
C2_Outcomes ==
    \A i \in Calls : Done(i) =>
        LET o == calls[i].outcome IN
        IF ~ArgsValid(calls[i]) THEN o.kind = "ToolError"
        ELSE IF Resp(i).kind \in TransportErrors
             THEN o.kind = "raise" /\ o.msg = <<Resp(i).kind>>
        ELSE IF ~(Resp(i).status \in 200..299) THEN o.kind = "ToolError"
        ELSE IF resp_json(Resp(i).body).ok
             THEN o.kind = "return" /\ o.value = resp_json(Resp(i).body).val
        ELSE o.kind = "raise" /\ o.msg = <<"JSONDecodeError">>

\* status 200 with a body that is no JSON: the decode error left the adapter
C2_Witness ==
    /\ GotHttp(1)
    /\ Resp(1).status = 200
    /\ Resp(1).body = <<"N", "o", "t", " ", "F", "o", "u", "n", "d">>
    /\ calls[1].outcome.kind = "raise"

\* the head of the normalizer's message for a response
MessageHead(resp) ==
    <<"USAspending API error ">> \o IntToStr(resp.status)
        \o <<" for ", resp.request.method, " ">> \o Url(resp.request) \o <<".">>

\* what follows the head in the message invocation i raised
DetailOf(i) == Drop(calls[i].outcome.msg, Len(MessageHead(Resp(i))))

Contains(s, sub) ==
    \E k \in 0..(Len(s) - Len(sub)) : SubSeq(s, k + 1, k + Len(sub)) = sub

\* C3 as stated: the normalizer raises nothing on a status in 200-399.
C3_Original ==
    \A i \in Calls :
        GotHttp(i) /\ Resp(i).status \in 200..399 => calls[i].outcome.kind # "ToolError"

\* C3, amended: the normalizer raises nothing on a status in 200-299, and on
\* every other status (3xx included) raises a Tool Error whose message
\* starts "USAspending API error <status> for <method> <url>."; for status
\* 404 with body {"detail":"not found"} the message contains 404, the
\* method and "not found".
C3_Normalizer ==
    \A i \in Calls : GotHttp(i) =>
        LET o == calls[i].outcome IN
        IF Resp(i).status \in 200..299 THEN o.kind # "ToolError"
        ELSE /\ o.kind = "ToolError"
             /\ Resp(i).request = Req(i)
             /\ StartsWith(o.msg, MessageHead(Resp(i)))
             /\ Contains(o.msg, IntToStr(Resp(i).status))
             /\ Contains(o.msg, <<Req(i).method>>)
             /\ Contains(o.msg, <<BASE_URL>> \o Quote(Req(i).path))
             /\ Resp(i).status = 404 /\ Resp(i).body = DetailNotFound =>
                    /\ Contains(o.msg, <<"4", "0", "4">>)
                    /\ Contains(o.msg, <<"n", "o", "t", " ", "f", "o", "u", "n", "d">>)

\* a redirect status was normalized into a Tool Error
C3_Witness ==
    /\ GotHttp(1)
    /\ Resp(1).status = 301
    /\ calls[1].outcome.kind = "ToolError"
    /\ StartsWith(calls[1].outcome.msg, <<"USAspending API error ", "3", "0", "1">>)

\* C4 as stated: the detail is the parsed JSON when the body parses and the
\* value is non-empty; else the raw text cut to 500 characters when the text
\* is non-empty (an empty JSON value falls through to this step); else
\* nothing.
C4_Original ==
    \A i \in Calls : GotError(i) =>
        LET payload == resp_json(Resp(i).body)
            text == resp_text(Resp(i).body)
        IN
        /\ calls[i].outcome.kind = "ToolError"
        /\ DetailOf(i) =
                IF payload.ok /\ Truthy(payload.val)
                THEN <<" Response: ">> \o PyStr(payload.val)
                ELSE IF text # <<>> THEN <<" Response: ">> \o Take(text, 500)
                ELSE <<>>

\* C4, amended: the detail is the parsed JSON when the body parses and the
\* value is non-empty; nothing when the body parses and the value is empty
\* (the text step is not taken); when the body does not parse, the text
\* stripped of surrounding whitespace and cut to 500 characters if that is
\* non-empty, else nothing.  Nothing but the Tool Error is raised.
C4_Detail ==
    \A i \in Calls : GotFailure(i) =>
        LET payload == resp_json(Resp(i).body)
            text == Strip(resp_text(Resp(i).body))
        IN
        /\ calls[i].outcome.kind = "ToolError"
        /\ payload.ok /\ Truthy(payload.val) =>
                DetailOf(i) = <<" Response: ">> \o PyStr(payload.val)
        /\ payload.ok /\ ~Truthy(payload.val) => DetailOf(i) = <<>>
        /\ ~payload.ok /\ text # <<>> =>
                DetailOf(i) = <<" Response: ">> \o Take(text, 500)
        /\ ~payload.ok /\ text = <<>> => DetailOf(i) = <<>>

\* status 500 with body {}: the message carries no detail
C4_Witness ==
    /\ GotFailure(1)
    /\ Resp(1).status = 500
    /\ Resp(1).body = <<"{", "}">>
    /\ calls[1].outcome.kind = "ToolError"
    /\ DetailOf(1) = <<>>

\* C5 as stated: for a failure response whose body is non-JSON, non-empty
\* text (here: not of whitespace only), the detail is exactly the first 500
\* characters of the body, leading whitespace included.
C5_Original ==
    \A i \in Calls :
        GotError(i) /\ ~resp_json(Resp(i).body).ok /\ NonBlank(Resp(i).body) =>
            DetailOf(i) = <<" Response: ">> \o SubSeq(resp_text(Resp(i).body), 1,
                                Min(500, Len(Resp(i).body)))

\* the index of the first and of the last character of s that is no whitespace
FirstInk(s) == CHOOSE k \in 1..Len(s) :
    s[k] \notin Whitespace /\ \A j \in 1..(k - 1) : s[j] \in Whitespace
LastInk(s) == CHOOSE k \in 1..Len(s) :
    s[k] \notin Whitespace /\ \A j \in (k + 1)..Len(s) : s[j] \in Whitespace

\* C5, amended: for a failure response whose body is non-JSON text that is
\* not all whitespace, the detail is exactly the first 500 characters of the
\* body with its leading and trailing whitespace removed (all of it when
\* that is at most 500 characters); the text detail never exceeds 500
\* characters.  A non-JSON body of whitespace only yields no detail.
C5_TextDetail ==
    \A i \in Calls :
        GotFailure(i) /\ ~resp_json(Resp(i).body).ok =>
            IF ~NonBlank(resp_text(Resp(i).body)) THEN DetailOf(i) = <<>>
            ELSE
            LET text == resp_text(Resp(i).body)
                from == FirstInk(text)
                upto == Min(LastInk(text), from + 499)
                d == DetailOf(i)
            IN /\ Head(d) = " Response: "
               /\ Len(Tail(d)) = upto - from + 1
               /\ Len(Tail(d)) <= 500
               /\ \A k \in 1..Len(Tail(d)) : Tail(d)[k] = text[from + k - 1]

\* two spaces, 500 x, a y and a space: the detail is the 500 x
C5_Witness ==
    /\ GotFailure(1)
    /\ Resp(1).body = <<" ", " ">> \o [k \in 1..500 |-> "x"] \o <<"y", " ">>
    /\ DetailOf(1) = <<" Response: ">> \o [k \in 1..500 |-> "x"]

\* the keys an adapter always sends, and the optional ones
AlwaysKeys(tool) ==
    CASE tool = "recipient_autocomplete" -> {"search_text", "limit"}
      [] tool = "recipient_list" -> {"awarding_agency_id", "fiscal_year"}
      [] tool = "spending_by_award" ->
            {"filters", "fields", "order", "subawards", "spending_level"}
      [] OTHER -> {}

OptionalKeys(tool) ==
    CASE tool = "recipient_autocomplete" -> {"recipient_levels"}
      [] tool = "recipient_list" -> {"limit", "page"}
      [] tool = "spending_by_award" ->
            {"limit", "page", "sort", "last_record_unique_id", "last_record_sort_value"}
      [] OTHER -> {"year"}

\* the query parameters of a GET, the JSON body of a POST
Payload(req) == IF req.method = "GET" THEN req.params ELSE req.json

\* C6: the keys of the request an adapter sends are its always-present keys
\* and the optional keys whose argument was provided, each with the value
\* passed; an optional argument left unset is no key of the request.
\* recipient_list(183, 2017, limit=5, page=1) sends exactly those four.
C6_PayloadKeys ==
    \A i \in Calls : Sent(i) =>
        LET tool == calls[i].tool
            args == calls[i].args
            sent == Payload(Req(i))
            given == {k \in OptionalKeys(tool) : args[k] # None}
        IN
        /\ DOMAIN sent = AlwaysKeys(tool) \cup given
        /\ \A k \in AlwaysKeys(tool) : sent[k] = args[k]
        /\ \A k \in given : <<sent[k]>> = args[k]
        /\ DOMAIN (IF Req(i).method = "GET" THEN Req(i).json ELSE Req(i).params) = {}
        /\ tool = "recipient_list" /\ args.awarding_agency_id = 183
                /\ args.limit = Some(5) /\ args.page = Some(1) =>
              sent = [awarding_agency_id |-> 183, fiscal_year |-> 2017,
                      limit |-> 5, page |-> 1]

\* spending_by_award sent with sort alone among its optional arguments
C6_Witness ==
    /\ Sent(1)
    /\ calls[1].tool = "spending_by_award"
    /\ calls[1].args.sort = Some("Award Amount")
    /\ calls[1].args.limit = None
    /\ calls[1].args.page = None
    /\ calls[1].args.last_record_unique_id = None
    /\ calls[1].args.last_record_sort_value = None
    /\ DOMAIN Req(1).json =
            {"filters", "fields", "order", "subawards", "spending_level", "sort"}

\* the checks of spending_by_award in the order of the contract: whether
\* each fails on the arguments, and the message it raises
SpendingChecks(a) ==
    << <<DOMAIN a.filters = {}, "filters must be a non-empty object.">>,
       <<Len(a.fields) = 0, "fields must be a non-empty array of strings.">>,
       <<a.order # "asc" /\ a.order # "desc", "order must be 'asc' or 'desc'.">>,
       <<a.spending_level # "awards" /\ a.spending_level # "subawards",
         "spending_level must be 'awards' or 'subawards'.">>,
       <<~OptAtLeastOne(a.limit), "limit must be >= 1.">>,
       <<~OptAtLeastOne(a.page), "page must be >= 1.">> >>

Failing(a) == {k \in 1..6 : SpendingChecks(a)[k][1]}

\* C7: spending_by_award raises the Tool Error of the first failing check,
\* in the order filters, fields, order, spending_level, limit, page, before
\* any request; order and spending_level each fail on their own.
C7_FirstFailingCheck ==
    \A i \in Calls : Started(i) /\ calls[i].tool = "spending_by_award" =>
        LET a == calls[i].args IN
        IF Failing(a) = {} THEN Sent(i)
        ELSE LET first == CHOOSE k \in Failing(a) : \A j \in Failing(a) : k <= j IN
             /\ Done(i)
             /\ ~Sent(i)
             /\ calls[i].outcome = ToolError(<<SpendingChecks(a)[first][2]>>)

\* order, spending_level and limit all invalid: the error is that of order
C7_Witness ==
    /\ Done(1)
    /\ calls[1].tool = "spending_by_award"
    /\ Failing(calls[1].args) = {3, 4, 5}
    /\ calls[1].outcome.msg = <<"order must be 'asc' or 'desc'.">>
    /\ ~Sent(1)

\* C9: recipient_children rejects an empty or whitespace-only duns_or_uei
\* with a Tool Error and no request; otherwise the path is built from the
\* identifier without its leading and trailing whitespace ("  001006360  "
\* gives /api/v2/recipient/children/001006360/), and year is a query
\* parameter, unchanged, only when provided.
C9_ChildrenPath ==
    \A i \in Calls : Started(i) /\ calls[i].tool = "recipient_children" =>
        LET id == calls[i].args.duns_or_uei
            year == calls[i].args.year
        IN
        IF ~NonBlank(id)
        THEN Done(i) /\ calls[i].outcome.kind = "ToolError" /\ ~Sent(i)
        ELSE /\ Len(requests[i]) = 1
             /\ Req(i).method = "GET"
             /\ Req(i).path = <<"/api/v2/recipient/children/">>
                    \o SubSeq(id, FirstInk(id), LastInk(id)) \o <<"/">>
             /\ year = None => DOMAIN Req(i).params = {}
             /\ year # None => DOMAIN Req(i).params = {"year"}
                                /\ <<Req(i).params["year"]>> = year
             /\ id = <<" ", " ", "0", "0", "1", "0", "0", "6", "3", "6", "0", " ", " ">> =>
                    Req(i).path = <<"/api/v2/recipient/children/",
                                    "0", "0", "1", "0", "0", "6", "3", "6", "0", "/">>

\* the padded identifier was sent, with a year
C9_Witness ==
    /\ Sent(1)
    /\ calls[1].tool = "recipient_children"
    /\ calls[1].args.duns_or_uei =
            <<" ", " ", "0", "0", "1", "0", "0", "6", "3", "6", "0", " ", " ">>
    /\ calls[1].args.year = Some(<<"2", "0", "1", "7">>)
    /\ Req(1).path = <<"/api/v2/recipient/children/",
                       "0", "0", "1", "0", "0", "6", "3", "6", "0", "/">>

\* An invocation that is over and had sent a request ended as its own
\* response decides.  The answers of Spec are status 200 with body [1] or
\* [2], status 500 with body x, and a timeout.
C8_OwnResponse ==
    \A i \in Calls : Done(i) /\ Sent(i) =>
        /\ Answered(i)
        /\ Resp(i).request = Req(i)
        /\ calls[i].outcome.kind # "none"
        /\ Resp(i).kind = "TimeoutException" => calls[i].outcome.kind = "raise"
        /\ Resp(i).kind = "http" /\ Resp(i).status = 500 =>
                /\ calls[i].outcome.kind = "ToolError"
                /\ Contains(calls[i].outcome.msg, <<Resp(i).request.method, " ">>
                                \o Url(Req(i)))
                /\ DetailOf(i) = <<" Response: ">> \o Resp(i).body
        /\ Resp(i).kind = "http" /\ Resp(i).status = 200 =>
                /\ calls[i].outcome.kind = "return"
                /\ calls[i].outcome.value = JList(<<JInt(<<Resp(i).body[2]>>)>>)

\* A step of one invocation changes nothing of another invocation.
C8_NoSharedWrites ==
    \A i \in Calls : calls'[i].pc # calls[i].pc =>
        \A j \in Calls \ {i} :
            /\ calls'[j] = calls[j]
            /\ requests'[j] = requests[j]
            /\ responses'[j] = responses[j]

\* C8: whatever the interleaving of the invocations sharing the client, the
\* outcome of an invocation is decided by its own arguments and the response
\* to its own request, never by the response of another invocation, and a
\* step of one invocation changes no state of another.
C8_NoCrossTalk == []C8_OwnResponse /\ [][C8_NoSharedWrites]_vars

\* two different adapters both returned, each the payload sent to it, and
\* the payloads differ
C8_Witness ==
    /\ Done(1) /\ Done(2)
    /\ Answered(1) /\ Answered(2)
    /\ calls[1].tool = "recipient_autocomplete"
    /\ calls[2].tool = "recipient_children"
    /\ Resp(1).body = <<"[", "2", "]">>
    /\ Resp(2).body = <<"[", "1", "]">>
    /\ calls[1].outcome = Return(JList(<<JInt(<<"2">>)>>))
    /\ calls[2].outcome = Return(JList(<<JInt(<<"1">>)>>))

\* One client instance, open until the finally block has run, then closed,
\* having been closed once.
C10_ClientState ==
    /\ _http_client.instances = 1
    /\ \A i \in Calls : \A k \in 1..Len(requests[i]) : requests[i][k].client = 1
    /\ pc = "running" => _http_client.state = "open" /\ _http_client.closes = 0
    /\ pc = "closing" => _http_client.state = "open" /\ _http_client.closes = 0
    /\ pc = "exited" => _http_client.state = "closed" /\ _http_client.closes = 1

\* A request is issued only on an open client.
C10_RequestsOnOpenClient ==
    requests' # requests => _http_client.state = "open" /\ _http_client'.state = "open"

\* C10: one client instance exists for the whole run and every request
\* goes through it; it stays open while the server runs, and once the run
\* is over, however mcp.run and the close ended, it has been closed exactly
\* once; no request is issued on a closed client.
C10_Lifecycle == []C10_ClientState /\ [][C10_RequestsOnOpenClient]_vars

\* mcp.run raised, the close raised too, and the client is closed, after
\* having served a request
C10_Witness ==
    /\ pc = "exited"
    /\ raised.run
    /\ raised.close
    /\ _http_client.state = "closed"
    /\ _http_client.closes = 1
    /\ \E i \in Calls : Sent(i)

=============================================================================
